---- MODULE Spec2Model ----
(***************************************************************************)
(* Worker pools, WaitGroups and rate limiting                              *)
(* (examples/01-basics/15-worker-pools/main.go).                           *)
(*                                                                         *)
(* main() runs three pools one after the other on one shared WorkerStats:  *)
(* the basic pool, the rate-limited pool and the dynamic pool.  Every      *)
(* goroutine is a process with a program counter; channels are bounded     *)
(* FIFO buffers with a closed flag; the WaitGroup is a counter.  A Go      *)
(* runtime panic (send on a closed channel, close of a closed channel,     *)
(* negative WaitGroup counter) ends the program: it is recorded in         *)
(* `panic` and disables every action.                                      *)
(*                                                                         *)
(* numTasks >= 0 and numWorkers >= 1 are parameters of the run, with       *)
(* numTasks + numWorkers <= MaxLoad.  The dynamic pool is also entered     *)
(* directly with the values main gives it (numTasks = 10).                 *)
(*                                                                         *)
(* Spec is main without a clock: a running ticker may deliver a tick at    *)
(* any moment (Tick).  TimedSpec is the rate-limited pool with a clock of  *)
(* 250 ms units, on which each ticker fires every Period (TimePasses);     *)
(* the claims about admission times are checked there.  FairSpec adds to   *)
(* Spec that the program does not stop while a goroutine can step.         *)
(* TimedMainSpec is the timed rate-limited pool with main's three workers. *)
(* ConfigSpec is main with numWorkers and operationsPerSecond drawn from   *)
(* 0 upwards, the configurations main never checks.  ChainSpec is main     *)
(* from zero statistics through all three pools.                           *)
(*                                                                         *)
(* FilterSpec is a call of lineFilter                                      *)
(* (examples/01-basics/21-testing-and-tooling/main.go) and SelectSpec is   *)
(* the select demo of examples/01-basics/12-channels/main.go.              *)
(***************************************************************************)
EXTENDS Integers, Sequences, FiniteSets, TLC

\* ------------------------------------------------------------- bounds
\* A run of main has numTasks + numWorkers <= MaxLoad.
MaxLoad == 4
\* Latest clock value up to which time may pass while no worker waits at
\* its ticker (beyond it time passes only when a worker needs a tick).
MaxIdleTime == 3
\* Tasks given to the rate-limited pool when it runs with main's three workers.
MaxRateTasks == 2
\* Most workers in a run of main that gives every pool dynamicTaskCount tasks.
MaxChainWorkers == 1
\* Longest input string given to lineFilter, and most filter strings.
MaxInput == 4
MaxFilters == 2
\* Latest clock value of the select demo.
MaxSelectClock == 7

\* -------------------------------------------------- program constants
mainNumTasks == 10
mainNumWorkers == 3
operationsPerSecond == 2
initialWorkers == 2
highLoadThreshold == 5
dynamicTaskCount == 5
\* time.Sleep durations in units of 50 ms
workerSleep == 2
rateLimitedSleep == 1
\* time.Second in clock units (one clock unit is 250 ms)
Second == 4
\* examples/01-basics/12-channels/main.go, in units of 100 ms: the worker's
\* time.After(500 ms) and main's time.Sleep(100 ms) after the quit signal
idleTimeout == 5
quitSleep == 1

WorkerIds == 1..(IF MaxLoad > initialWorkers + 1 THEN MaxLoad ELSE initialWorkers + 1)

VARIABLES
  numTasks,    \* main's numTasks
  numWorkers,  \* main's numWorkers
  rate,        \* main's operationsPerSecond
  section,     \* the part of main that is running: "basic", "rate", "dynamic", "end"
  mainpc,      \* main goroutine's position
  mi,          \* main's loop index i
  tasks,       \* the current pool's Task Queue   [buf, cap, closed]
  results,     \* the current pool's Result Queue [buf, cap, closed]
  wg,          \* the current pool's WaitGroup counter
  stats,       \* the shared WorkerStats [tasksProcessed, totalTime]
  wpc,         \* worker id -> position
  wtask,       \* worker id -> the task it holds (loop variable `task`)
  ppc,         \* producer goroutine's position
  pi,          \* producer's loop index i
  cpc,         \* closer goroutine's position
  spc,         \* scaler goroutine's position
  seen,        \* what len(dynamicTasks) returned to the scaler (-1: not yet called)
  now,         \* wall clock of the rate-limited pool, in clock units
  limiter,     \* worker id -> its ticker [on, c, phase]
  panic,       \* "none", or the runtime panic that ended the program
  \* history of the current pool run (not read by the program)
  got,         \* worker id -> sequence of task IDs it dequeued
  collected,   \* sequence of tasks main's range loop received, in order
  closes,      \* sequence of [ch, by] recording every close() executed
  admitted,    \* worker id -> clock values at which it passed <-limiter.C
  loaded,      \* the values main loaded from stats after the basic pool (-1: not yet)
  \* examples/01-basics/21-testing-and-tooling/main.go
  lf,          \* a call of lineFilter: its arguments, locals, position and return value
  \* examples/01-basics/12-channels/main.go
  sel          \* the select demo: main's and the worker's positions, the clock, the timers

\* The variables of the worker-pool program.
poolVars == <<numTasks, numWorkers, rate, seen, section, mainpc, mi, tasks, results, wg, stats,
              wpc, wtask, ppc, pi, cpc, spc, now, limiter, panic,
              got, collected, closes, admitted, loaded>>

vars == <<poolVars, lf, sel>>

\* ------------------------------------------------------------ helpers
\* Task{ID: i}: Result is the zero value.
Task(id) == [ID |-> id, Result |-> 0]
\* The zero Task: a worker's loop variable when it holds no task.
NoTask == [ID |-> 0, Result |-> 0]

\* (mutant) the queues are made with capacity numWorkers.
MakeChanOfWorkers(n) == [buf |-> <<>>, cap |-> numWorkers, closed |-> FALSE]
\* make(chan Task, n)
MakeChan(n) == [buf |-> <<>>, cap |-> n, closed |-> FALSE]

\* A send proceeds when the buffer has room; on a closed channel it panics.
SendReady(ch) == ch.closed \/ Len(ch.buf) < ch.cap
RecvReady(ch) == Len(ch.buf) > 0 \/ ch.closed
\* (mutant) the loop ends as soon as the channel is closed, whatever it holds.
RangeEndsAtClose(ch) == ch.closed
\* A range loop over a channel ends when the channel is closed and empty.
RangeEnds(ch) == ch.closed /\ Len(ch.buf) = 0

\* (mutant) Wait returns although one worker has not called Done.
WaitReturnsOneEarly(counter) == counter <= 1
\* (mutant) Wait does not wait.
WaitReturnsAtOnce(counter) == TRUE
\* wg.Wait() returns when the counter is zero.
WaitReturns(counter) == counter = 0

\* (mutant) the result is ID + 2.
ComputeSum(id) == id + 2
\* task.Result = task.ID * 2
Compute(id) == id * 2

\* (mutant) the loop stops one iteration early.
LoopDoneOneEarly(i, n) == i >= n
\* for i := 1; i <= n; i++ has ended
LoopDone(i, n) == i > n

NoLimiter == [on |-> FALSE, c |-> FALSE, phase |-> 0]

\* time.Second / time.Duration(rate)
Period(r) == Second \div r

Running == panic = "none"

SeqToSet(s) == {s[k] : k \in 1..Len(s)}

\* (mutant) the duration is taken as start minus end.
ElapsedReversed(sec) == 0 - (IF sec = "rate" THEN rateLimitedSleep ELSE workerSleep)
\* time.Since(start).Nanoseconds(), in units of 50 ms: the time the worker
\* slept between start := time.Now() and the measurement (the monotonic
\* clock never yields less; the model takes this least value).
Elapsed(sec) == IF sec = "rate" THEN rateLimitedSleep ELSE workerSleep

NoHistory == [w \in WorkerIds |-> <<>>]

\* No call of lineFilter is in progress.
LfOff == [pc |-> "off"]
\* The select demo is not running.
SelOff == [mpc |-> "off"]
NotLoaded == [totalTime |-> -1, tasksProcessed |-> -1, printed |-> -1]

\* --------------------------------------------------------------- Init
\* main's position when it reaches the loop that starts the workers
\* (lines 128, 168, 203): i := 1; i <= numWorkers is tested before the first
\* iteration.  The dynamic pool starts initialWorkers workers.
LoopEntry(sec, n) ==
  IF sec = "dynamic" THEN "add"
  ELSE IF LoopDone(1, n) THEN "goProducer" ELSE "add"

\* The state main is in when it enters a section: fresh channels and
\* WaitGroup, no goroutine of the section started.
SectionStart(sec) ==
  /\ section = sec
  /\ mainpc = LoopEntry(sec, numWorkers)
  /\ mi = 1
  /\ tasks = MakeChan(numTasks)
  /\ results = MakeChan(numTasks)
  /\ wg = 0
  /\ wpc = [w \in WorkerIds |-> "off"]
  /\ wtask = [w \in WorkerIds |-> NoTask]
  /\ ppc = "off"
  /\ pi = 1
  /\ cpc = "off"
  /\ spc = "off"
  /\ seen = -1
  /\ now = 0
  /\ limiter = [w \in WorkerIds |-> NoLimiter]
  /\ got = NoHistory
  /\ collected = <<>>
  /\ closes = <<>>
  /\ admitted = NoHistory

\* main at line 118, numTasks and numWorkers drawn from the bounded ranges.
InitMain ==
  /\ numTasks \in 0..MaxLoad
  /\ numWorkers \in 1..MaxLoad
  /\ numTasks + numWorkers <= MaxLoad
  /\ rate = operationsPerSecond
  /\ stats = [tasksProcessed |-> 0, totalTime |-> 0]
  /\ loaded = NotLoaded
  /\ panic = "none"
  /\ lf = LfOff
  /\ sel = SelOff
  /\ SectionStart("basic")

\* main at line 196 with the values of the source (numTasks = 10,
\* numWorkers = 3): the basic and the rate-limited pool have processed
\* numTasks tasks each, every measurement without lag.
InitDynamic ==
  /\ numTasks = mainNumTasks
  /\ numWorkers = mainNumWorkers
  /\ rate = operationsPerSecond
  /\ stats = [tasksProcessed |-> 2 * mainNumTasks,
              totalTime |-> mainNumTasks * workerSleep + mainNumTasks * rateLimitedSleep]
  /\ loaded = [totalTime |-> mainNumTasks * workerSleep,
               tasksProcessed |-> mainNumTasks, printed |-> mainNumTasks]
  /\ panic = "none"
  /\ lf = LfOff
  /\ sel = SelOff
  /\ SectionStart("dynamic")

Init == InitMain \/ InitDynamic

\* ------------------------------------------------------------ workers
\* (mutant) the worker takes the task sent last, not the one sent first.
WorkerRecvNewest(w) ==
  /\ Running
  /\ wpc[w] = "recv"
  /\ RecvReady(tasks)
  /\ IF ~RangeEnds(tasks)
     THEN /\ wtask' = [wtask EXCEPT ![w] = tasks.buf[Len(tasks.buf)]]
          /\ tasks' = [tasks EXCEPT !.buf = SubSeq(tasks.buf, 1, Len(tasks.buf) - 1)]
          /\ got' = [got EXCEPT ![w] = Append(got[w], tasks.buf[Len(tasks.buf)].ID)]
          /\ wpc' = [wpc EXCEPT ![w] = IF section = "rate" THEN "gate" ELSE "work"]
     ELSE /\ wpc' = [wpc EXCEPT ![w] = IF section = "rate" THEN "stop" ELSE "exit"]
          /\ UNCHANGED <<wtask, tasks, got>>
  /\ UNCHANGED <<sel, lf, numTasks, numWorkers, rate, seen, section, mainpc, mi, results, wg, stats,
                 ppc, pi, cpc, spc, now, limiter, panic, collected,
                 closes, admitted, loaded>>

\* for task := range tasks  (lines 55, 91)
WorkerRecv(w) ==
  /\ Running
  /\ wpc[w] = "recv"
  /\ RecvReady(tasks)
  /\ IF ~RangeEnds(tasks)
     THEN /\ wtask' = [wtask EXCEPT ![w] = Head(tasks.buf)]
          /\ tasks' = [tasks EXCEPT !.buf = Tail(tasks.buf)]
          /\ got' = [got EXCEPT ![w] = Append(got[w], Head(tasks.buf).ID)]
          /\ wpc' = [wpc EXCEPT ![w] = IF section = "rate" THEN "gate" ELSE "work"]
     ELSE /\ wpc' = [wpc EXCEPT ![w] = IF section = "rate" THEN "stop" ELSE "exit"]
          /\ UNCHANGED <<wtask, tasks, got>>
  /\ UNCHANGED <<sel, lf, numTasks, numWorkers, rate, seen, section, mainpc, mi, results, wg, stats,
                 ppc, pi, cpc, spc, now, limiter, panic, collected,
                 closes, admitted, loaded>>

\* (mutant) the result is written to task.ID instead of task.Result.
WorkerWorkWritingID(w) ==
  /\ Running
  /\ wpc[w] = "work"
  /\ wtask' = [wtask EXCEPT ![w].ID = Compute(wtask[w].ID)]
  /\ wpc' = [wpc EXCEPT ![w] = "count"]
  /\ UNCHANGED <<sel, lf, numTasks, numWorkers, rate, seen, section, mainpc, mi, tasks, results, wg,
                 stats, ppc, pi, cpc, spc, now, limiter, panic, got, collected,
                 closes, admitted, loaded>>

\* start := time.Now(); time.Sleep(...); task.Result = task.ID * 2
\* (lines 56-60, 93-97)
WorkerWork(w) ==
  /\ Running
  /\ wpc[w] = "work"
  /\ wtask' = [wtask EXCEPT ![w].Result = Compute(wtask[w].ID)]
  /\ wpc' = [wpc EXCEPT ![w] = "count"]
  /\ UNCHANGED <<sel, lf, numTasks, numWorkers, rate, seen, section, mainpc, mi, tasks, results, wg,
                 stats, ppc, pi, cpc, spc, now, limiter, panic, got, collected, closes, admitted, loaded>>

\* (mutant) the worker does not count the task.
WorkerCountSkipped(w) ==
  /\ Running
  /\ wpc[w] = "count"
  /\ wpc' = [wpc EXCEPT ![w] = "time"]
  /\ UNCHANGED <<sel, lf, numTasks, numWorkers, rate, seen, section, mainpc, mi, tasks, results, wg,
                 stats, wtask, ppc, pi, cpc, spc, now, limiter, panic, got,
                 collected, closes, admitted, loaded>>

\* (mutant) the worker counts the task and never adds its elapsed time.
WorkerCountNoTime(w) ==
  /\ Running
  /\ wpc[w] = "count"
  /\ stats' = [stats EXCEPT !.tasksProcessed = @ + 1]
  /\ wpc' = [wpc EXCEPT ![w] = "send"]
  /\ UNCHANGED <<sel, lf, numTasks, numWorkers, rate, seen, section, mainpc, mi, tasks, results, wg,
                 wtask, ppc, pi, cpc, spc, now, limiter, panic, got, collected,
                 closes, admitted, loaded>>

\* atomic.AddUint64(&stats.tasksProcessed, 1)  (lines 63, 100)
WorkerCount(w) ==
  /\ Running
  /\ wpc[w] = "count"
  /\ stats' = [stats EXCEPT !.tasksProcessed = @ + 1]
  /\ wpc' = [wpc EXCEPT ![w] = "time"]
  /\ UNCHANGED <<sel, lf, numTasks, numWorkers, rate, seen, section, mainpc, mi, tasks, results, wg,
                 wtask, ppc, pi, cpc, spc, now, limiter, panic, got, collected, closes, admitted, loaded>>

\* atomic.AddInt64(&stats.totalTime, time.Since(start).Nanoseconds())
\* (lines 64, 101), then the log line (66-69, 103-106), which changes nothing.
WorkerTime(w) ==
  /\ Running
  /\ wpc[w] = "time"
  /\ stats' = [stats EXCEPT !.totalTime = @ + Elapsed(section)]
  /\ wpc' = [wpc EXCEPT ![w] = "send"]
  /\ UNCHANGED <<sel, lf, numTasks, numWorkers, rate, seen, section, mainpc, mi, tasks, results, wg,
                 wtask, ppc, pi, cpc, spc, now, limiter, panic, got, collected, closes, admitted, loaded>>

\* results <- task  (lines 71, 108)
WorkerSend(w) ==
  /\ Running
  /\ wpc[w] = "send"
  /\ SendReady(results)
  /\ IF results.closed
     THEN /\ panic' = "send on closed channel"
          /\ UNCHANGED <<results, wtask, wpc>>
     ELSE /\ results' = [results EXCEPT !.buf = Append(results.buf, wtask[w])]
          /\ wtask' = [wtask EXCEPT ![w] = NoTask]
          /\ wpc' = [wpc EXCEPT ![w] = "recv"]
          /\ UNCHANGED panic
  /\ UNCHANGED <<sel, lf, numTasks, numWorkers, rate, seen, section, mainpc, mi, tasks, wg, stats,
                 ppc, pi, cpc, spc, now, limiter, got, collected, closes,
                 admitted, loaded>>

\* (mutant) the worker returns without calling wg.Done().
WorkerExitNoDone(w) ==
  /\ Running
  /\ wpc[w] = "exit"
  /\ wpc' = [wpc EXCEPT ![w] = "done"]
  /\ UNCHANGED <<sel, lf, numTasks, numWorkers, rate, seen, section, mainpc, mi, tasks, results, wg,
                 stats, wtask, ppc, pi, cpc, spc, now, limiter, panic, got,
                 collected, closes, admitted, loaded>>

\* (mutant) the worker closes the Result Queue before it calls wg.Done().
WorkerExitClosing(w) ==
  /\ Running
  /\ wpc[w] = "exit"
  /\ IF results.closed
     THEN /\ panic' = "close of closed channel"
          /\ UNCHANGED <<results, closes, wg, wpc>>
     ELSE /\ results' = [results EXCEPT !.closed = TRUE]
          /\ closes' = Append(closes, [ch |-> "results", by |-> "worker"])
          /\ wg' = wg - 1
          /\ wpc' = [wpc EXCEPT ![w] = "done"]
          /\ UNCHANGED panic
  /\ UNCHANGED <<sel, lf, numTasks, numWorkers, rate, seen, section, mainpc, mi, tasks, stats,
                 wtask, ppc, pi, cpc, spc, now, limiter, got, collected,
                 admitted, loaded>>

\* defer wg.Done()  (lines 53, 85)
WorkerExit(w) ==
  /\ Running
  /\ wpc[w] = "exit"
  /\ IF wg = 0
     THEN /\ panic' = "negative WaitGroup counter"
          /\ UNCHANGED <<wg, wpc>>
     ELSE /\ wg' = wg - 1
          /\ wpc' = [wpc EXCEPT ![w] = "done"]
          /\ UNCHANGED panic
  /\ UNCHANGED <<sel, lf, numTasks, numWorkers, rate, seen, section, mainpc, mi, tasks, results,
                 stats, wtask, ppc, pi, cpc, spc, now, limiter, got, collected, closes, admitted, loaded>>

\* limiter := time.NewTicker(time.Second / time.Duration(rate))  (line 88)
\* The integer division panics for rate = 0; otherwise the ticker fires
\* every Period(rate) clock units after its creation.
RateNewTicker(w) ==
  /\ Running
  /\ wpc[w] = "ticker"
  /\ IF rate = 0
     THEN /\ panic' = "integer divide by zero"
          /\ UNCHANGED <<limiter, wpc>>
     ELSE /\ limiter' = [limiter EXCEPT ![w] =
                           [on |-> TRUE, c |-> FALSE, phase |-> now % Period(rate)]]
          /\ wpc' = [wpc EXCEPT ![w] = "recv"]
          /\ UNCHANGED panic
  /\ UNCHANGED <<sel, lf, numTasks, numWorkers, rate, seen, section, mainpc, mi, tasks, results, wg,
                 stats, wtask, ppc, pi, cpc, spc, now, got, collected, closes,
                 admitted, loaded>>

\* (mutant) the worker goes on without receiving from limiter.C.
RateGateNoWait(w) ==
  /\ Running
  /\ wpc[w] = "gate"
  /\ wpc' = [wpc EXCEPT ![w] = "work"]
  /\ UNCHANGED <<sel, lf, numTasks, numWorkers, rate, seen, section, mainpc, mi, tasks, results, wg,
                 stats, wtask, ppc, pi, cpc, spc, now, limiter, panic, got,
                 collected, closes, admitted, loaded>>

\* <-limiter.C  (line 92)
RateGate(w) ==
  /\ Running
  /\ wpc[w] = "gate"
  /\ limiter[w].c
  /\ limiter' = [limiter EXCEPT ![w].c = FALSE]
  /\ admitted' = [admitted EXCEPT ![w] = Append(admitted[w], now)]
  /\ wpc' = [wpc EXCEPT ![w] = "work"]
  /\ UNCHANGED <<sel, lf, numTasks, numWorkers, rate, seen, section, mainpc, mi, tasks, results, wg,
                 stats, wtask, ppc, pi, cpc, spc, now, panic, got, collected, closes, loaded>>

\* (mutant) the worker returns without stopping its ticker.
RateStopLeaking(w) ==
  /\ Running
  /\ wpc[w] = "stop"
  /\ wpc' = [wpc EXCEPT ![w] = "exit"]
  /\ UNCHANGED <<sel, lf, numTasks, numWorkers, rate, seen, section, mainpc, mi, tasks, results, wg,
                 stats, wtask, ppc, pi, cpc, spc, now, limiter, panic, got,
                 collected, closes, admitted, loaded>>

\* defer limiter.Stop()  (line 89); Stop does not empty the channel.
RateStop(w) ==
  /\ Running
  /\ wpc[w] = "stop"
  /\ limiter' = [limiter EXCEPT ![w].on = FALSE]
  /\ wpc' = [wpc EXCEPT ![w] = "exit"]
  /\ UNCHANGED <<sel, lf, numTasks, numWorkers, rate, seen, section, mainpc, mi, tasks, results, wg,
                 stats, wtask, ppc, pi, cpc, spc, now, panic, got, collected, closes, admitted, loaded>>

\* The runtime's ticker: one clock unit passes, and every running ticker
\* whose period ends now sends on its channel C, which has a buffer of one
\* (a tick is dropped if the buffer is full).
TimePasses ==
  /\ Running
  /\ section = "rate"
  /\ \E w \in WorkerIds : limiter[w].on
  /\ \/ now < MaxIdleTime
     \/ \E w \in WorkerIds : wpc[w] = "gate" /\ ~limiter[w].c
  /\ now' = now + 1
  /\ limiter' = [w \in WorkerIds |->
                   IF limiter[w].on
                      /\ (now + 1) % Period(rate) = limiter[w].phase
                   THEN [limiter[w] EXCEPT !.c = TRUE]
                   ELSE limiter[w]]
  /\ UNCHANGED <<sel, lf, numTasks, numWorkers, rate, seen, section, mainpc, mi, tasks, results, wg,
                 stats, wpc, wtask, ppc, pi, cpc, spc, panic, got, collected, closes, admitted, loaded>>

\* ----------------------------------------------- producer and closer
\* go func() { for i := 1; i <= numTasks; i++ { tasks <- Task{ID: i} } ... }
\* (lines 134-137, 174-177)
ProducerSend ==
  /\ Running
  /\ ppc = "send"
  /\ ~LoopDone(pi, numTasks)
  /\ SendReady(tasks)
  /\ IF tasks.closed
     THEN /\ panic' = "send on closed channel"
          /\ UNCHANGED <<tasks, pi>>
     ELSE /\ tasks' = [tasks EXCEPT !.buf = Append(tasks.buf, Task(pi))]
          /\ pi' = pi + 1
          /\ UNCHANGED panic
  /\ UNCHANGED <<sel, lf, numTasks, numWorkers, rate, seen, section, mainpc, mi, results, wg, stats,
                 wpc, wtask, ppc, cpc, spc, now, limiter, got, collected, closes, admitted, loaded>>

\* close(tasks) once the loop has ended  (lines 138, 178)
ProducerClose ==
  /\ Running
  /\ ppc = "send"
  /\ LoopDone(pi, numTasks)
  /\ IF tasks.closed
     THEN /\ panic' = "close of closed channel"
          /\ UNCHANGED <<tasks, closes, ppc>>
     ELSE /\ tasks' = [tasks EXCEPT !.closed = TRUE]
          /\ closes' = Append(closes, [ch |-> "tasks", by |-> "producer"])
          /\ ppc' = "done"
          /\ UNCHANGED panic
  /\ UNCHANGED <<sel, lf, numTasks, numWorkers, rate, seen, section, mainpc, mi, results, wg, stats,
                 wpc, wtask, pi, cpc, spc, now, limiter, got, collected, admitted, loaded>>

\* go func() { wg.Wait(); ... }  (lines 143, 183)
CloserWait ==
  /\ Running
  /\ cpc = "wait"
  /\ WaitReturns(wg)
  /\ cpc' = "close"
  /\ UNCHANGED <<sel, lf, numTasks, numWorkers, rate, seen, section, mainpc, mi, tasks, results, wg,
                 stats, wpc, wtask, ppc, pi, spc, now, limiter, panic, got,
                 collected, closes, admitted, loaded>>

\* close(results)  (lines 144, 184)
CloserClose ==
  /\ Running
  /\ cpc = "close"
  /\ IF results.closed
     THEN /\ panic' = "close of closed channel"
          /\ UNCHANGED <<results, closes, cpc>>
     ELSE /\ results' = [results EXCEPT !.closed = TRUE]
          /\ closes' = Append(closes, [ch |-> "results", by |-> "closer"])
          /\ cpc' = "done"
          /\ UNCHANGED panic
  /\ UNCHANGED <<sel, lf, numTasks, numWorkers, rate, seen, section, mainpc, mi, tasks, wg, stats,
                 wpc, wtask, ppc, pi, spc, now, limiter, got, collected, admitted, loaded>>

\* --------------------------------------------------------------- main
\* The number of workers main's loop starts in the running section
\* (lines 128, 168, 203).
LaunchCount == IF section = "dynamic" THEN initialWorkers ELSE numWorkers

\* wg.Add(1)  (lines 129, 169, 204)
MainAdd ==
  /\ Running
  /\ mainpc = "add"
  /\ wg' = wg + 1
  /\ mainpc' = "go"
  /\ UNCHANGED <<sel, lf, numTasks, numWorkers, rate, seen, section, mi, tasks, results, stats, wpc,
                 wtask, ppc, pi, cpc, spc, now, limiter, panic, got, collected, closes, admitted, loaded>>

\* go worker(i, ...) / go rateLimitedWorker(i, ...); i++  (lines 130, 170, 205)
MainGo ==
  /\ Running
  /\ mainpc = "go"
  /\ wpc' = [wpc EXCEPT ![mi] = IF section = "rate" THEN "ticker" ELSE "recv"]
  /\ mi' = mi + 1
  /\ mainpc' = IF ~LoopDone(mi + 1, LaunchCount) THEN "add"
               ELSE IF section = "dynamic" THEN "goScaler" ELSE "goProducer"
  /\ UNCHANGED <<sel, lf, numTasks, numWorkers, rate, seen, section, tasks, results, wg, stats,
                 wtask, ppc, pi, cpc, spc, now, limiter, panic, got, collected, closes, admitted, loaded>>

\* go func() { ... send tasks ... }()  (lines 134, 174)
MainGoProducer ==
  /\ Running
  /\ mainpc = "goProducer"
  /\ ppc' = "send"
  /\ pi' = 1
  /\ mainpc' = "goCloser"
  /\ UNCHANGED <<sel, lf, numTasks, numWorkers, rate, seen, section, mi, tasks, results, wg, stats,
                 wpc, wtask, cpc, spc, now, limiter, panic, got, collected, closes, admitted, loaded>>

\* go func() { wg.Wait(); close(results) }()  (lines 142, 182)
MainGoCloser ==
  /\ Running
  /\ mainpc = "goCloser"
  /\ cpc' = "wait"
  /\ mainpc' = "range"
  /\ UNCHANGED <<sel, lf, numTasks, numWorkers, rate, seen, section, mi, tasks, results, wg, stats,
                 wpc, wtask, ppc, pi, spc, now, limiter, panic, got, collected, closes, admitted, loaded>>

\* for result := range results { log }  (lines 148-150, 188-190, 224-226)
MainRange ==
  /\ Running
  /\ mainpc = "range"
  /\ RecvReady(results)
  /\ IF ~RangeEnds(results)
     THEN /\ collected' = Append(collected, Head(results.buf))
          /\ results' = [results EXCEPT !.buf = Tail(results.buf)]
          /\ UNCHANGED mainpc
     ELSE /\ mainpc' = "ranged"
          /\ UNCHANGED <<collected, results>>
  /\ UNCHANGED <<sel, lf, numTasks, numWorkers, rate, seen, section, mi, tasks, wg, stats, wpc,
                 wtask, ppc, pi, cpc, spc, now, limiter, panic, got, closes, admitted, loaded>>

\* (mutant) tasksProcessed is read with a swap that resets it
\* (atomic.SwapUint64(&stats.tasksProcessed, 0)).
MainLoadSwapping ==
  /\ Running
  /\ section = "basic"
  /\ mainpc = "ranged"
  /\ loaded.printed = -1
  /\ loaded' = IF loaded.totalTime = -1
                 THEN [loaded EXCEPT !.totalTime = stats.totalTime]
               ELSE IF loaded.tasksProcessed = -1
                 THEN [loaded EXCEPT !.tasksProcessed = stats.tasksProcessed]
               ELSE [loaded EXCEPT !.printed = stats.tasksProcessed]
  /\ stats' = IF loaded.totalTime = -1 THEN stats
              ELSE [stats EXCEPT !.tasksProcessed = 0]
  /\ UNCHANGED <<sel, lf, numTasks, numWorkers, rate, seen, section, mainpc, mi, tasks, results, wg,
                 wpc, wtask, ppc, pi, cpc, spc, now, limiter, panic,
                 got, collected, closes, admitted>>

\* The three loads of lines 152-154, in evaluation order:
\* LoadInt64(&stats.totalTime), LoadUint64(&stats.tasksProcessed) for
\* avgTime, LoadUint64(&stats.tasksProcessed) for the log line.
MainLoad ==
  /\ Running
  /\ section = "basic"
  /\ mainpc = "ranged"
  /\ loaded.printed = -1
  /\ loaded' = IF loaded.totalTime = -1
                 THEN [loaded EXCEPT !.totalTime = stats.totalTime]
               ELSE IF loaded.tasksProcessed = -1
                 THEN [loaded EXCEPT !.tasksProcessed = stats.tasksProcessed]
               ELSE [loaded EXCEPT !.printed = stats.tasksProcessed]
  /\ UNCHANGED <<sel, lf, numTasks, numWorkers, rate, seen, section, mainpc, mi, tasks, results, wg,
                 stats, wpc, wtask, ppc, pi, cpc, spc, now, limiter, panic,
                 got, collected, closes, admitted>>

\* main leaves one section and sets up the next: make(chan Task, numTasks)
\* twice and a fresh WaitGroup (lines 162-164, 197-199); after the dynamic
\* pool main returns (line 228).
NextSection(sec) ==
  IF sec = "basic" THEN "rate" ELSE IF sec = "rate" THEN "dynamic" ELSE "end"

\* (mutant) main resets the stats when it sets up the next pool.
MainNextSectionResetting ==
  /\ Running
  /\ mainpc = "ranged"
  /\ section = "basic" => loaded.printed # -1
  /\ section' = NextSection(section)
  /\ mainpc' = IF section = "dynamic" THEN "done"
               ELSE LoopEntry(NextSection(section), numWorkers)
  /\ mi' = 1
  /\ tasks' = MakeChan(numTasks)
  /\ results' = MakeChan(numTasks)
  /\ wg' = 0
  /\ wpc' = [w \in WorkerIds |-> "off"]
  /\ wtask' = [w \in WorkerIds |-> NoTask]
  /\ ppc' = "off"
  /\ pi' = 1
  /\ cpc' = "off"
  /\ spc' = "off"
  /\ seen' = -1
  /\ now' = 0
  /\ limiter' = [w \in WorkerIds |-> NoLimiter]
  /\ got' = NoHistory
  /\ collected' = <<>>
  /\ closes' = <<>>
  /\ admitted' = NoHistory
  /\ stats' = [tasksProcessed |-> 0, totalTime |-> 0]
  /\ UNCHANGED <<sel, lf, numTasks, numWorkers, rate, panic, loaded>>

MainNextSection ==
  /\ Running
  /\ mainpc = "ranged"
  /\ section = "basic" => loaded.printed # -1
  /\ section' = NextSection(section)
  /\ mainpc' = IF section = "dynamic" THEN "done"
               ELSE LoopEntry(NextSection(section), numWorkers)
  /\ mi' = 1
  /\ tasks' = MakeChan(numTasks)
  /\ results' = MakeChan(numTasks)
  /\ wg' = 0
  /\ wpc' = [w \in WorkerIds |-> "off"]
  /\ wtask' = [w \in WorkerIds |-> NoTask]
  /\ ppc' = "off"
  /\ pi' = 1
  /\ cpc' = "off"
  /\ spc' = "off"
  /\ seen' = -1
  /\ now' = 0
  /\ limiter' = [w \in WorkerIds |-> NoLimiter]
  /\ got' = NoHistory
  /\ collected' = <<>>
  /\ closes' = <<>>
  /\ admitted' = NoHistory
  /\ UNCHANGED <<sel, lf, numTasks, numWorkers, rate, stats, panic, loaded>>

\* ------------------------------------------------- the dynamic pool
\* (mutant) the comparison is >= instead of >.
HighLoadAtThreshold(n) == n >= highLoadThreshold
\* len(dynamicTasks) > 5  (line 210)
HighLoad(n) == n > highLoadThreshold

\* go func() { if len(dynamicTasks) > 5 { ... } }()  (line 209)
MainGoScaler ==
  /\ Running
  /\ mainpc = "goScaler"
  /\ spc' = "check"
  /\ mi' = 1
  /\ mainpc' = "send"
  /\ UNCHANGED <<sel, lf, numTasks, numWorkers, rate, seen, section, tasks, results, wg, stats, wpc,
                 wtask, ppc, pi, cpc, now, limiter, panic, got, collected, closes, admitted, loaded>>

\* The scaler goroutine: one check of the backlog; above the threshold
\* dynamicWg.Add(1) and go worker(initialWorkers+1, ...)  (lines 210-213)
ScalerRun ==
  /\ Running
  /\ spc = "check"
  /\ IF HighLoad(Len(tasks.buf))
     THEN /\ wg' = wg + 1
          /\ wpc' = [wpc EXCEPT ![initialWorkers + 1] = "recv"]
     ELSE UNCHANGED <<wg, wpc>>
  /\ seen' = Len(tasks.buf)
  /\ spc' = "done"
  /\ UNCHANGED <<sel, lf, numTasks, numWorkers, rate, section, mainpc, mi, tasks, results,
                 stats, wtask, ppc, pi, cpc, now, limiter, panic, got, collected, closes, admitted, loaded>>

\* for i := 1; i <= 5; i++ { dynamicTasks <- Task{ID: i} }  (lines 217-219)
MainSend ==
  /\ Running
  /\ mainpc = "send"
  /\ ~LoopDone(mi, dynamicTaskCount)
  /\ SendReady(tasks)
  /\ IF tasks.closed
     THEN /\ panic' = "send on closed channel"
          /\ UNCHANGED <<tasks, mi>>
     ELSE /\ tasks' = [tasks EXCEPT !.buf = Append(tasks.buf, Task(mi))]
          /\ mi' = mi + 1
          /\ UNCHANGED panic
  /\ UNCHANGED <<sel, lf, numTasks, numWorkers, rate, seen, section, mainpc, results, wg, stats, wpc,
                 wtask, ppc, pi, cpc, spc, now, limiter, got, collected, closes, admitted, loaded>>

\* close(dynamicTasks)  (line 220)
MainClose ==
  /\ Running
  /\ mainpc = "send"
  /\ LoopDone(mi, dynamicTaskCount)
  /\ IF tasks.closed
     THEN /\ panic' = "close of closed channel"
          /\ UNCHANGED <<tasks, closes, mainpc>>
     ELSE /\ tasks' = [tasks EXCEPT !.closed = TRUE]
          /\ closes' = Append(closes, [ch |-> "tasks", by |-> "main"])
          /\ mainpc' = "wait"
          /\ UNCHANGED panic
  /\ UNCHANGED <<sel, lf, numTasks, numWorkers, rate, seen, section, mi, results, wg, stats, wpc,
                 wtask, ppc, pi, cpc, spc, now, limiter, got, collected, admitted, loaded>>

\* dynamicWg.Wait()  (line 221)
MainWait ==
  /\ Running
  /\ mainpc = "wait"
  /\ WaitReturns(wg)
  /\ mainpc' = "closeResults"
  /\ UNCHANGED <<sel, lf, numTasks, numWorkers, rate, seen, section, mi, tasks, results, wg, stats,
                 wpc, wtask, ppc, pi, cpc, spc, now, limiter, panic, got,
                 collected, closes, admitted, loaded>>

\* close(dynamicResults)  (line 222)
MainCloseResults ==
  /\ Running
  /\ mainpc = "closeResults"
  /\ IF results.closed
     THEN /\ panic' = "close of closed channel"
          /\ UNCHANGED <<results, closes, mainpc>>
     ELSE /\ results' = [results EXCEPT !.closed = TRUE]
          /\ closes' = Append(closes, [ch |-> "results", by |-> "main"])
          /\ mainpc' = "range"
          /\ UNCHANGED panic
  /\ UNCHANGED <<sel, lf, numTasks, numWorkers, rate, seen, section, mi, tasks, wg, stats, wpc,
                 wtask, ppc, pi, cpc, spc, now, limiter, got, collected, admitted, loaded>>

\* The runtime's ticker seen without the clock: a running ticker sends on its
\* channel C at some moment (a tick that finds the buffer full is dropped
\* and changes nothing).
Tick(w) ==
  /\ Running
  /\ limiter[w].on
  /\ ~limiter[w].c
  /\ limiter' = [limiter EXCEPT ![w].c = TRUE]
  /\ UNCHANGED <<sel, lf, numTasks, numWorkers, rate, seen, section, mainpc, mi, tasks, results, wg,
                 stats, wpc, wtask, ppc, pi, cpc, spc, now, panic, got,
                 collected, closes, admitted, loaded>>

\* ---------------------------------------------------- specification
Worker(w) ==
  \/ WorkerRecv(w)
  \/ WorkerWork(w)
  \/ WorkerCount(w)
  \/ WorkerTime(w)
  \/ WorkerSend(w)
  \/ WorkerExit(w)
  \/ RateNewTicker(w)
  \/ RateGate(w)
  \/ RateStop(w)

Next ==
  \/ \E w \in WorkerIds : Worker(w)
  \/ \E w \in WorkerIds : Tick(w)
  \/ ProducerSend
  \/ ProducerClose
  \/ CloserWait
  \/ CloserClose
  \/ MainAdd
  \/ MainGo
  \/ MainGoProducer
  \/ MainGoCloser
  \/ MainRange
  \/ MainLoad
  \/ MainNextSection
  \/ MainGoScaler
  \/ ScalerRun
  \/ MainSend
  \/ MainClose
  \/ MainWait
  \/ MainCloseResults

Spec == Init /\ [][Next]_vars

\* The Go scheduler runs a runnable goroutine, and time passes: the program
\* does not stop while some step is possible.
\* main run from its start with numTasks = 5, the least value with which the
\* dynamic pool's queues hold its 5 tasks: all three pools complete.
InitChain ==
  /\ numTasks = dynamicTaskCount
  /\ numWorkers \in 1..MaxChainWorkers
  /\ rate = operationsPerSecond
  /\ stats = [tasksProcessed |-> 0, totalTime |-> 0]
  /\ loaded = NotLoaded
  /\ panic = "none"
  /\ lf = LfOff
  /\ sel = SelOff
  /\ SectionStart("basic")

ChainSpec == InitChain /\ [][Next]_vars

FairSpec == Spec /\ WF_vars(Next)

\* The rate-limited pool with the clock: main at line 161, after the basic
\* pool has processed its numTasks tasks and main has loaded the stats.
InitRate ==
  /\ numTasks \in 0..MaxLoad
  /\ numWorkers \in 1..MaxLoad
  /\ numTasks + numWorkers <= MaxLoad
  /\ rate = operationsPerSecond
  /\ stats = [tasksProcessed |-> numTasks, totalTime |-> numTasks * workerSleep]
  /\ loaded = [totalTime |-> numTasks * workerSleep,
               tasksProcessed |-> numTasks, printed |-> numTasks]
  /\ panic = "none"
  /\ lf = LfOff
  /\ sel = SelOff
  /\ SectionStart("rate")

NextTimed ==
  \/ \E w \in WorkerIds : Worker(w)
  \/ TimePasses
  \/ ProducerSend
  \/ ProducerClose
  \/ CloserWait
  \/ CloserClose
  \/ MainAdd
  \/ MainGo
  \/ MainGoProducer
  \/ MainGoCloser
  \/ MainRange

TimedSpec == InitRate /\ [][NextTimed]_vars

\* The rate-limited pool as main starts it (line 161): numWorkers = 3 workers,
\* operationsPerSecond = 2, with MaxRateTasks tasks.
InitRateMain ==
  /\ numTasks = MaxRateTasks
  /\ numWorkers = mainNumWorkers
  /\ rate = operationsPerSecond
  /\ stats = [tasksProcessed |-> numTasks, totalTime |-> numTasks * workerSleep]
  /\ loaded = [totalTime |-> numTasks * workerSleep,
               tasksProcessed |-> numTasks, printed |-> numTasks]
  /\ panic = "none"
  /\ lf = LfOff
  /\ sel = SelOff
  /\ SectionStart("rate")

TimedMainSpec == InitRateMain /\ [][NextTimed]_vars

\* main with any configuration: numWorkers and operationsPerSecond from 0.
RateValues == 0..operationsPerSecond

InitConfig ==
  /\ numTasks \in 0..MaxLoad
  /\ numWorkers \in 0..MaxLoad
  /\ numTasks + numWorkers <= MaxLoad
  /\ rate \in RateValues
  /\ stats = [tasksProcessed |-> 0, totalTime |-> 0]
  /\ loaded = NotLoaded
  /\ panic = "none"
  /\ lf = LfOff
  /\ sel = SelOff
  /\ SectionStart("basic")

ConfigSpec == (InitConfig \/ InitDynamic) /\ [][Next]_vars

\* ---------------------------------------------------------- lineFilter
\* examples/01-basics/21-testing-and-tooling/main.go, lines 50-68.
\* A string is the sequence of its characters; NL is "\n".
NL == "nl"
Alphabet == {"a", "b", NL}
\* The filter strings drawn: the empty string, one and two characters, and
\* one that holds a newline.
FilterStrings == {<<>>, <<"a">>, <<"a", "b">>, <<"b", NL>>}

SeqsUpTo(S, n) == UNION {[1..k -> S] : k \in 0..n}

\* Position of the first newline of s, 0 if it has none.
RECURSIVE IndexNL(_, _)
IndexNL(s, from) ==
  IF from > Len(s) THEN 0
  ELSE IF s[from] = NL THEN from
  ELSE IndexNL(s, from + 1)

\* strings.Split(s, "\n"): the substrings between the newlines; a string
\* without newline (the empty string too) gives one element.
RECURSIVE Split(_)
Split(s) ==
  IF IndexNL(s, 1) = 0 THEN <<s>>
  ELSE <<SubSeq(s, 1, IndexNL(s, 1) - 1)>>
       \o Split(SubSeq(s, IndexNL(s, 1) + 1, Len(s)))

\* strings.Join(elems, "\n"): "" for no element.
RECURSIVE Join(_)
Join(elems) ==
  IF Len(elems) = 0 THEN <<>>
  ELSE IF Len(elems) = 1 THEN elems[1]
  ELSE elems[1] \o <<NL>> \o Join(Tail(elems))

\* (mutant) strings.HasPrefix in the place of strings.Contains.
HasPrefix(line, substr) ==
  Len(substr) <= Len(line) /\ SubSeq(line, 1, Len(substr)) = substr
\* strings.Contains(line, substr): substr occurs at some position of line
\* (the empty string occurs in every string).
Contains(line, substr) ==
  \E k \in 1..(Len(line) - Len(substr) + 1) :
    SubSeq(line, k, k + Len(substr) - 1) = substr

\* The worker-pool program is not running.
PoolOff ==
  /\ numTasks = 0 /\ numWorkers = 0 /\ rate = 0 /\ seen = -1
  /\ section = "off" /\ mainpc = "off" /\ mi = 1
  /\ tasks = MakeChan(0) /\ results = MakeChan(0) /\ wg = 0
  /\ stats = [tasksProcessed |-> 0, totalTime |-> 0]
  /\ wpc = [w \in WorkerIds |-> "off"]
  /\ wtask = [w \in WorkerIds |-> NoTask]
  /\ ppc = "off" /\ pi = 1 /\ cpc = "off" /\ spc = "off"
  /\ now = 0 /\ limiter = [w \in WorkerIds |-> NoLimiter]
  /\ panic = "none"
  /\ got = NoHistory /\ collected = <<>> /\ closes = <<>>
  /\ admitted = NoHistory /\ loaded = NotLoaded

\* lineFilter(input, filters) is called.
InitFilter ==
  /\ \E input \in SeqsUpTo(Alphabet, MaxInput) :
     \E filters \in SeqsUpTo(FilterStrings, MaxFilters) :
       lf = [pc |-> "split", input |-> input, filters |-> filters,
             lines |-> <<>>, result |-> <<>>, i |-> 1, j |-> 1,
             include |-> TRUE, out |-> <<>>]
  /\ sel = SelOff
  /\ PoolOff

\* lines := strings.Split(input, "\n"); var result []string  (lines 51-52)
LfSplit ==
  /\ lf.pc = "split"
  /\ lf' = [lf EXCEPT !.lines = Split(lf.input), !.result = <<>>,
                       !.i = 1, !.pc = "line"]
  /\ UNCHANGED <<poolVars, sel>>

\* for _, line := range lines { include := true  (lines 54-55)
LfLine ==
  /\ lf.pc = "line"
  /\ lf' = IF lf.i > Len(lf.lines)
             THEN [lf EXCEPT !.pc = "join"]
             ELSE [lf EXCEPT !.include = TRUE, !.j = 1, !.pc = "filter"]
  /\ UNCHANGED <<poolVars, sel>>

\* for _, filter := range filters { if strings.Contains(line, filter)
\* { include = false; break } }  (lines 56-61): one iteration.
LfFilter ==
  /\ lf.pc = "filter"
  /\ lf' = IF lf.j > Len(lf.filters)
             THEN [lf EXCEPT !.pc = "include"]
             ELSE IF Contains(lf.lines[lf.i], lf.filters[lf.j])
             THEN [lf EXCEPT !.include = FALSE, !.pc = "include"]
             ELSE [lf EXCEPT !.j = lf.j + 1]
  /\ UNCHANGED <<poolVars, sel>>

\* if include { result = append(result, line) }  (lines 62-64), next line.
LfInclude ==
  /\ lf.pc = "include"
  /\ lf' = [lf EXCEPT !.result = IF lf.include THEN Append(lf.result, lf.lines[lf.i])
                                  ELSE lf.result,
                       !.i = lf.i + 1, !.pc = "line"]
  /\ UNCHANGED <<poolVars, sel>>

\* return strings.Join(result, "\n")  (line 67)
LfJoin ==
  /\ lf.pc = "join"
  /\ lf' = [lf EXCEPT !.out = Join(lf.result), !.pc = "done"]
  /\ UNCHANGED <<poolVars, sel>>

NextFilter ==
  \/ LfSplit
  \/ LfLine
  \/ LfFilter
  \/ LfInclude
  \/ LfJoin

FilterSpec == InitFilter /\ [][NextFilter]_vars

\* ------------------------------------------------------------------
\* The select demo of examples/01-basics/12-channels/main.go: main starts
\* worker(dataCh, quitCh), sends 1 and 2 on the unbuffered dataCh and true
\* on the unbuffered quitCh, then sleeps.  The clock sel.now counts units of
\* 100 ms.  An unbuffered send and its receive are one step of both
\* goroutines.  Nothing bounds the time a goroutine takes to reach its
\* next statement: the clock may advance in every state.

\* worker is not running / has no armed timer.
NoTimer == -1

\* main is at a send on dataCh, and the value it sends (lines 156-157).
DataSends == {"send1", "send2"}
DataValue(mpc) == IF mpc = "send1" THEN 1 ELSE 2
AfterSend(mpc) == IF mpc = "send1" THEN "send2" ELSE "quit"

\* dataCh = make(chan int); quitCh := make(chan bool)  (lines 150-151)
InitSelect ==
  /\ sel = [mpc |-> "go", wpc |-> "off", data |-> <<>>, exit |-> "none",
            now |-> 0, timer |-> NoTimer, wake |-> NoTimer]
  /\ lf = LfOff
  /\ PoolOff

\* go worker(dataCh, quitCh)  (line 153)
SelMainGo ==
  /\ sel.mpc = "go"
  /\ sel' = [sel EXCEPT !.mpc = "send1", !.wpc = "for"]
  /\ UNCHANGED <<poolVars, lf>>

\* for { select { ... case <-time.After(500 * time.Millisecond)  (lines
\* 71-72, 78): entering the select evaluates time.After, which starts a
\* new timer.
SelWorkerArm ==
  /\ sel.wpc = "for"
  /\ sel' = [sel EXCEPT !.timer = sel.now + idleTimeout, !.wpc = "select"]
  /\ UNCHANGED <<poolVars, lf>>

\* case data := <-dataCh: log.Printf(...)  (lines 73-74) meeting main's
\* dataCh <- 1 or dataCh <- 2 (lines 156-157); the worker loops.
SelRecvData ==
  /\ sel.wpc = "select"
  /\ sel.mpc \in DataSends
  /\ sel' = [sel EXCEPT !.data = Append(sel.data, DataValue(sel.mpc)),
                        !.mpc = AfterSend(sel.mpc),
                        !.timer = NoTimer, !.wpc = "for"]
  /\ UNCHANGED <<poolVars, lf>>

\* case <-quitCh: log.Println(...); return  (lines 75-77) meeting main's
\* quitCh <- true (line 160); main goes on to time.Sleep(100 ms) (line 161).
SelRecvQuit ==
  /\ sel.wpc = "select"
  /\ sel.mpc = "quit"
  /\ sel' = [sel EXCEPT !.exit = "quit", !.wpc = "done", !.timer = NoTimer,
                        !.mpc = "sleep", !.wake = sel.now + quitSleep]
  /\ UNCHANGED <<poolVars, lf>>

\* case <-time.After(...): log.Println(...); return  (lines 78-80): the
\* timer of this select has fired.  A select with several ready cases
\* takes any one of them.
SelTimeout ==
  /\ sel.wpc = "select"
  /\ sel.now >= sel.timer
  /\ sel' = [sel EXCEPT !.exit = "timeout", !.wpc = "done", !.timer = NoTimer]
  /\ UNCHANGED <<poolVars, lf>>

\* time.Sleep(100 * time.Millisecond) returns  (line 161)
SelMainWake ==
  /\ sel.mpc = "sleep"
  /\ sel.now >= sel.wake
  /\ sel' = [sel EXCEPT !.mpc = "done", !.wake = NoTimer]
  /\ UNCHANGED <<poolVars, lf>>

\* 100 ms pass.
SelTimePasses ==
  /\ sel.mpc \notin {"off", "done"}
  /\ sel.now < MaxSelectClock
  /\ sel' = [sel EXCEPT !.now = sel.now + 1]
  /\ UNCHANGED <<poolVars, lf>>

NextSelect ==
  \/ SelMainGo
  \/ SelWorkerArm
  \/ SelRecvData
  \/ SelRecvQuit
  \/ SelTimeout
  \/ SelMainWake
  \/ SelTimePasses

SelectSpec == InitSelect /\ [][NextSelect]_vars

\* main is at a channel send that no goroutine will ever receive.
MainBlockedForever ==
  /\ sel.mpc \in DataSends \cup {"quit"}
  /\ sel.wpc = "done"

\* The lines of a string, by the positions of its newlines: line k lies
\* between the (k-1)-th and the k-th newline.
NewlinesBefore(s, p) == Cardinality({q \in 1..(p - 1) : s[q] = NL})
LineCount(s) == NewlinesBefore(s, Len(s) + 1) + 1
LineOf(s, k) ==
  LET ps == {p \in 1..Len(s) : s[p] # NL /\ NewlinesBefore(s, p) = k - 1}
  IN  [n \in 1..Cardinality(ps) |->
         s[CHOOSE p \in ps : Cardinality({q \in ps : q < p}) = n - 1]]
LinesOf(s) == [k \in 1..LineCount(s) |-> LineOf(s, k)]
\* f is a substring of l: l is some prefix, then f, then some suffix.
IsSubstring(f, l) ==
  \E a \in 0..Len(l) : \E b \in a..Len(l) :
    SubSeq(l, 1, a) \o f \o SubSeq(l, b + 1, Len(l)) = l
\* The lines of input that hold none of the filters, in order.
KeptLines(input, filters) ==
  SelectSeq(LinesOf(input),
            LAMBDA l : \A k \in 1..Len(filters) : ~IsSubstring(filters[k], l))

\* ------------------------------------------------------------ notions
\* Tasks sent to the Task Queue so far in the running pool.
Enqueued ==
  IF section = "dynamic"
  THEN (IF mainpc \in {"add", "go", "goScaler"} THEN 0 ELSE mi - 1)
  ELSE pi - 1

\* Tasks the running pool is given in all.
Submitted == IF section = "dynamic" THEN dynamicTaskCount ELSE numTasks

Launched == {w \in WorkerIds : wpc[w] # "off"}
AllWorkersExited ==
  /\ mainpc \notin {"add", "go"}
  /\ \A w \in Launched : wpc[w] = "done"

\* main's range loop over the Result Queue has ended.
PoolComplete == mainpc = "ranged"

DequeuedIds == UNION {SeqToSet(got[w]) : w \in WorkerIds}
Occurrences(seq, id) == Cardinality({k \in 1..Len(seq) : seq[k].ID = id})
CollectedExactly(n) ==
  /\ Len(collected) = n
  /\ \A id \in 1..n : Occurrences(collected, id) = 1

\* A goroutine stands at a send to the Task Queue.
SendPendingOnTasks ==
  \/ ppc = "send" /\ pi <= numTasks
  \/ section = "dynamic" /\ mainpc = "send" /\ mi <= dynamicTaskCount

\* The close() calls executed on a queue, and the goroutine the source
\* gives each close to.
ClosesOf(ch) == {k \in 1..Len(closes) : closes[k].ch = ch}
TaskCloser == IF section = "dynamic" THEN "main" ELSE "producer"
ResultCloser == IF section = "dynamic" THEN "main" ELSE "closer"

\* The admissions of the running rate-limited pool: <<worker, index>> of every
\* receive from a ticker channel so far.
Admissions == {a \in WorkerIds \X (1..numTasks) : a[2] <= Len(admitted[a[1]])}
AdmittedAt(a) == admitted[a[1]][a[2]]
Distance(t1, t2) == IF t1 >= t2 THEN t1 - t2 ELSE t2 - t1

\* Workers between the two atomic adds: the task is counted, its elapsed
\* time not yet added.
TimePending == Cardinality({w \in WorkerIds : wpc[w] = "time"})
\* The elapsed time of the tasks counted in stats.tasksProcessed so far:
\* numTasks tasks per finished pool, the rest in the running pool.
CountedTime ==
  IF section = "basic" THEN stats.tasksProcessed * workerSleep
  ELSE IF section = "rate"
    THEN numTasks * workerSleep + (stats.tasksProcessed - numTasks) * rateLimitedSleep
  ELSE numTasks * workerSleep + numTasks * rateLimitedSleep
       + (stats.tasksProcessed - 2 * numTasks) * workerSleep

\* The task IDs of a sequence of tasks, in order.
Ids(seq) == [k \in 1..Len(seq) |-> seq[k].ID]
\* seq is first, first + 1, ... without a gap.
Consecutive(seq, first) == \A k \in 1..Len(seq) : seq[k] = first + k - 1

\* The results in the order the workers sent them: those main has received
\* followed by those still in the Result Queue.
Arrived == collected \o results.buf

\* The workers that hold a dequeued task.
Holding == {w \in WorkerIds : wtask[w] # NoTask}
\* The changes of position a rateLimitedWorker makes, in program order:
\* started, ticker created, then per task dequeue - tick - compute - count
\* - time - send, and at the end of the loop Stop, Done.
RateWorkerSteps ==
  {<<"off", "ticker">>, <<"ticker", "recv">>,
   <<"recv", "gate">>, <<"gate", "work">>, <<"work", "count">>,
   <<"count", "time">>, <<"time", "send">>, <<"send", "recv">>,
   <<"recv", "stop">>, <<"stop", "exit">>, <<"exit", "done">>}

\* stats.tasksProcessed when the running pool started: numTasks tasks per
\* pool run before it.
CountAtStart ==
  IF section = "basic" THEN 0
  ELSE IF section = "rate" THEN numTasks
  ELSE 2 * numTasks
\* The increments of tasksProcessed made in the running pool.
CountedInRun == stats.tasksProcessed - CountAtStart

\* Workers counted in the WaitGroup: those started and not yet returned, and
\* the one main has called Add(1) for and is about to start.
Counted ==
  Cardinality({w \in Launched : wpc[w] # "done"}) + (IF mainpc = "go" THEN 1 ELSE 0)
\* A Wait on the pool's WaitGroup has returned.
WaitReturned ==
  \/ cpc \in {"close", "done"}
  \/ section = "dynamic" /\ mainpc \in {"closeResults", "range", "ranged"}

\* ------------------------------------------------------------- claims

\* C1: in the basic pool, for every numTasks >= 0 and numWorkers >= 1 and
\* every interleaving, main's range loop eventually ends having collected
\* exactly numTasks results, every task ID 1..numTasks exactly once.
C1_BasicCollectsAll ==
  (section = "basic") ~>
    (section = "basic" /\ PoolComplete /\ CollectedExactly(numTasks))

C1_Witness ==
  /\ section = "basic" /\ PoolComplete
  /\ numTasks >= 2 /\ numWorkers >= 2
  /\ CollectedExactly(numTasks)
  /\ \A w \in 1..2 : Len(got[w]) >= 1

\* C2: no task ID is received by two workers (or twice), and once the Task
\* Queue is closed and every worker has exited, every enqueued task has
\* been received by a worker and none is left in the queue.
C2_ExactlyOneWorker ==
  /\ \A w1, w2 \in WorkerIds :
       \A k1 \in 1..Len(got[w1]) : \A k2 \in 1..Len(got[w2]) :
         got[w1][k1] = got[w2][k2] => (w1 = w2 /\ k1 = k2)
  /\ (tasks.closed /\ AllWorkersExited) =>
       (tasks.buf = <<>> /\ DequeuedIds = 1..Enqueued)

C2_Witness ==
  /\ tasks.closed /\ AllWorkersExited
  /\ Enqueued >= 2
  /\ \E w1, w2 \in WorkerIds : w1 # w2 /\ Len(got[w1]) >= 1 /\ Len(got[w2]) >= 1

\* C3: after a pool completes, stats.tasksProcessed equals the number of
\* tasks submitted to that pool, for each of the three pools of main.
C3_CountEqualsSubmitted ==
  PoolComplete => stats.tasksProcessed = Submitted

\* C4: every result on a Result Queue has Result = 2 * ID, its ID being that
\* of the task the worker dequeued; when the basic pool completes, the
\* collected results are exactly (i, 2i) for i in 1..numTasks, each once.
C4_ResultIsDouble ==
  /\ \A k \in 1..Len(results.buf) :
       /\ results.buf[k].Result = 2 * results.buf[k].ID
       /\ results.buf[k].ID \in DequeuedIds
  /\ \A k \in 1..Len(collected) :
       /\ collected[k].Result = 2 * collected[k].ID
       /\ collected[k].ID \in DequeuedIds
  /\ \A w \in WorkerIds :
       wpc[w] \in {"gate", "work", "count", "time", "send"} =>
         wtask[w].ID = got[w][Len(got[w])]
  /\ (section = "basic" /\ PoolComplete) =>
       /\ CollectedExactly(numTasks)
       /\ SeqToSet(collected) = {[ID |-> id, Result |-> 2 * id] : id \in 1..numTasks}

C4_Witness ==
  /\ section = "basic" /\ PoolComplete /\ numTasks >= 2
  /\ [ID |-> 2, Result |-> 4] \in SeqToSet(collected)

\* C5: completion barrier: whenever a Result Queue is closed, every worker
\* launched for the pool has left its loop and called Done, main is not
\* launching workers and the scaler is not about to launch one.
C5_BarrierBeforeClose ==
  results.closed =>
    /\ AllWorkersExited
    /\ wg = 0
    /\ ~(spc = "check" /\ HighLoad(Len(tasks.buf)))

C5_Witness ==
  /\ results.closed
  /\ section = "rate"
  /\ Cardinality(Launched) >= 2
  /\ Len(results.buf) >= 1

\* C6: no send on a closed queue is attempted: no goroutine stands at a send
\* to a queue that is closed, and no send has panicked.
C6_NoSendOnClosed ==
  /\ panic # "send on closed channel"
  /\ tasks.closed => ~SendPendingOnTasks
  /\ results.closed => \A w \in WorkerIds : wpc[w] # "send"

C6_Witness ==
  /\ tasks.closed /\ results.closed
  /\ section = "dynamic"
  /\ Len(results.buf) = dynamicTaskCount

\* C7: each queue is closed at most once, exactly once by the time the pool
\* completes, and only by its designated closer: the Task Queue by the
\* producer (main in the dynamic pool) after its last send, the Result Queue
\* by the goroutine that waited on the WaitGroup; a worker closes neither.
C7_ClosedOnceByOwner ==
  /\ panic # "close of closed channel"
  /\ Cardinality(ClosesOf("tasks")) = (IF tasks.closed THEN 1 ELSE 0)
  /\ Cardinality(ClosesOf("results")) = (IF results.closed THEN 1 ELSE 0)
  /\ \A k \in ClosesOf("tasks") : closes[k].by = TaskCloser
  /\ \A k \in ClosesOf("results") : closes[k].by = ResultCloser
  /\ tasks.closed => Enqueued = Submitted
  /\ PoolComplete => (tasks.closed /\ results.closed)

C7_Witness ==
  /\ PoolComplete
  /\ section = "basic"
  /\ numWorkers >= 2
  /\ Len(closes) = 2

\* C8: main's range loop ends exactly when the Result Queue is closed and
\* empty: it has never ended while a result is buffered or a worker can
\* still send one, and once the queue is closed and drained it does end.
C8_CollectorEndsWhenDrained ==
  /\ [](PoolComplete =>
          (results.closed /\ results.buf = <<>> /\ AllWorkersExited))
  /\ ((mainpc = "range" /\ results.closed /\ results.buf = <<>>)
        ~> (mainpc # "range"))

C8_Witness ==
  /\ PoolComplete
  /\ section = "rate"
  /\ Len(collected) >= 2

\* C9: with numTasks = 0 the basic pool completes in every interleaving:
\* every worker exits, producer and closer finish, the Result Queue is
\* closed and main's range loop ends with no result.
C9_EmptyPoolCompletes ==
  (section = "basic" /\ numTasks = 0) ~>
    (/\ section = "basic" /\ PoolComplete
     /\ collected = <<>>
     /\ results.closed /\ tasks.closed
     /\ results.cap = 0 /\ tasks.cap = 0
     /\ ppc = "done" /\ cpc = "done"
     /\ \A w \in 1..numWorkers : wpc[w] = "done")

C9_Witness ==
  /\ section = "basic" /\ numTasks = 0 /\ numWorkers >= 2
  /\ PoolComplete
  /\ collected = <<>>
  /\ \A w \in 1..numWorkers : wpc[w] = "done"

\* C10: a single rate-limited worker takes one tick per task, and when it
\* passes the gate for its k-th task at least k-1 periods have elapsed
\* since its first admission.
C10_PeriodsSinceFirstAdmission ==
  (section = "rate" /\ numWorkers = 1) =>
    /\ Len(admitted[1]) = Len(got[1]) - (IF wpc[1] = "gate" THEN 1 ELSE 0)
    /\ \A k \in 1..Len(admitted[1]) :
         admitted[1][k] - admitted[1][1] >= (k - 1) * Period(operationsPerSecond)

\* C11: the gate is strictly periodic, without burst credit: for every
\* rate-limited worker, two consecutive admissions are at least one period
\* apart (a tick that fired while the worker was away from the gate does
\* not admit a task later).
C11_NoBurstCredit ==
  section = "rate" =>
    \A w \in WorkerIds : \A k \in 1..(Len(admitted[w]) - 1) :
      admitted[w][k + 1] - admitted[w][k] >= Period(operationsPerSecond)

\* C12: in the rate-limited pool as main runs it (three workers, rate 2),
\* at most one task is admitted per period across all workers: any two
\* admissions of the pool are at least one period apart.
C12_PoolRateBounded ==
  (section = "rate" /\ numWorkers = mainNumWorkers) =>
    \A a, b \in Admissions :
      a # b => Distance(AdmittedAt(a), AdmittedAt(b)) >= Period(operationsPerSecond)

\* C13: a rate-limited worker that has left its loop and is returning has
\* stopped the ticker it created; once every worker of the rate-limited
\* pool has exited (the completion barrier) no ticker of the pool runs.
C13_TickerStoppedOnExit ==
  section = "rate" =>
    /\ \A w \in WorkerIds : wpc[w] \in {"exit", "done"} => ~limiter[w].on
    /\ \A w \in WorkerIds : limiter[w].on => wpc[w] \in {"recv", "gate", "work", "count", "time", "send", "stop"}
    /\ (AllWorkersExited \/ results.closed) => \A w \in WorkerIds : ~limiter[w].on

C13_Witness ==
  /\ section = "rate" /\ results.closed
  /\ numWorkers >= 2 /\ numTasks >= 1
  /\ \A w \in 1..numWorkers : wpc[w] = "done" /\ ~limiter[w].on
  /\ \E w \in 1..numWorkers : Len(admitted[w]) >= 1

\* C14: a pool started with numWorkers <= 0 is rejected: no task is
\* accepted into the Task Queue (none can be dropped), and main does not
\* see a normal completion of the pool with zero results.
C14_ZeroWorkersRejected ==
  numWorkers <= 0 =>
    /\ Enqueued = 0
    /\ ~PoolComplete

\* C15: a rate <= 0 does not crash: computing the period and creating the
\* ticker puts neither the worker nor the program into a panic.
C15_BadRateNoCrash ==
  rate <= 0 => panic # "integer divide by zero"

\* C16: over the whole run of main (all three pools) every step leaves
\* stats.tasksProcessed unchanged or adds exactly 1 to it, never decreases
\* stats.totalTime, and totalTime is never negative.
C16_StatsMonotonic ==
  [][/\ stats'.tasksProcessed - stats.tasksProcessed \in {0, 1}
     /\ stats'.totalTime >= stats.totalTime
     /\ stats.totalTime >= 0 /\ stats'.totalTime >= 0]_vars

C16_Witness ==
  /\ section = "rate" /\ PoolComplete
  /\ numTasks >= 2
  /\ stats.tasksProcessed = 2 * numTasks
  /\ stats.totalTime = numTasks * (workerSleep + rateLimitedSleep)

\* C17: once main's range loop over the Result Queue has ended, the stats
\* do not change until the next pool is set up, and the loads main makes
\* then agree: every load returns the value the stats hold, the two loads
\* of tasksProcessed return the same value, and a load changes nothing.
C17_LoadsIdempotent ==
  /\ [](PoolComplete =>
          /\ (loaded.totalTime # -1 /\ section = "basic") => loaded.totalTime = stats.totalTime
          /\ (loaded.tasksProcessed # -1 /\ section = "basic") =>
               loaded.tasksProcessed = stats.tasksProcessed
          /\ (loaded.printed # -1 /\ section = "basic") =>
               (loaded.printed = loaded.tasksProcessed /\ loaded.printed = stats.tasksProcessed))
  /\ [][(PoolComplete /\ section' = section) => stats' = stats]_vars

C17_Witness ==
  /\ section = "basic" /\ PoolComplete
  /\ numTasks >= 2 /\ numWorkers >= 2
  /\ loaded.totalTime = numTasks * workerSleep
  /\ loaded.tasksProcessed = numTasks
  /\ loaded.printed = numTasks

\* C18: the pair (tasksProcessed, totalTime) is not updated atomically:
\* totalTime lags the counted tasks by the elapsed time of exactly the
\* workers that stand between the two adds, so while such a worker exists
\* the pair is one no sequence of whole increments produces (the witness
\* reaches such a pair).
C18_PairTornBetweenAdds ==
  CountedTime - stats.totalTime = Elapsed(section) * TimePending

C18_Witness ==
  /\ section = "basic"
  /\ TimePending >= 1
  /\ stats.tasksProcessed = 2
  /\ stats.totalTime = workerSleep
  /\ \E w \in WorkerIds : wpc[w] = "send"

\* C19: FIFO along producer -> Task Queue -> worker: the tasks are dequeued
\* in the order they were sent (the dequeued IDs are always the first ones
\* sent, the queue holds the following ones in order, and every worker's
\* dequeues are in sending order); with exactly one worker the Result Queue
\* and main's range loop carry the results in submission order 1, 2, 3, ...
C19_FifoSingleEdge ==
  /\ DequeuedIds = 1..Cardinality(DequeuedIds)
  /\ Consecutive(Ids(tasks.buf), Cardinality(DequeuedIds) + 1)
  /\ \A w \in WorkerIds : \A k \in 1..(Len(got[w]) - 1) : got[w][k] < got[w][k + 1]
  /\ (numWorkers = 1 /\ section \in {"basic", "rate"}) =>
       /\ Consecutive(Ids(collected), 1)
       /\ Consecutive(Ids(results.buf), Len(collected) + 1)

C19_Witness ==
  /\ numWorkers = 1 /\ section = "basic" /\ PoolComplete
  /\ numTasks = 3
  /\ Ids(collected) = <<1, 2, 3>>

\* C20: with numWorkers >= 2 the basic pool gives no global result order:
\* all that holds of the order of a pool of `worker` goroutines (basic and
\* dynamic pool) is that a result overtakes at most one earlier task per
\* other worker, and the basic pool collects all numTasks results whatever
\* the order; the witness is a completed run of the basic pool in which a
\* later task's result was received before an earlier task's.
C20_OrderNotGlobal ==
  /\ (section \in {"basic", "dynamic"} /\ numWorkers >= 2) =>
       \A k \in 1..Len(Arrived) : Arrived[k].ID <= k + Cardinality(Launched) - 1
  /\ (section = "basic" /\ numWorkers >= 2 /\ PoolComplete) =>
       CollectedExactly(numTasks)

C20_Witness ==
  /\ section = "basic" /\ numWorkers >= 2 /\ PoolComplete
  /\ CollectedExactly(numTasks)
  /\ \E k1, k2 \in 1..Len(collected) :
       k1 < k2 /\ collected[k1].ID > collected[k2].ID

\* C21: the scaler is one-shot: it reads the backlog at most once per run of
\* the dynamic pool, it launches at most one extra worker (the pool never
\* has more than initialWorkers + 1 workers), and that worker runs only if
\* the one backlog value read was above the threshold.
C21_ScalerOneShot ==
  /\ [](section = "dynamic" =>
          /\ Launched \subseteq 1..(initialWorkers + 1)
          /\ (wpc[initialWorkers + 1] # "off") =>
               (spc = "done" /\ seen > highLoadThreshold)
          /\ (spc = "done") <=> (seen # -1))
  /\ [][(section = "dynamic" /\ seen # -1 /\ section' = section) =>
          (seen' = seen /\ spc' = "done")]_vars

C21_Witness ==
  /\ section = "dynamic" /\ PoolComplete
  /\ spc = "done" /\ seen = highLoadThreshold
  /\ wpc[initialWorkers + 1] = "off"
  /\ Launched = 1..initialWorkers

\* C22: a Task is mutated exactly once: it travels the Task Queue as the
\* producer made it (Result 0); the worker that dequeued it writes Result,
\* once, in its step from "work", before it sends it, and never its ID; a
\* task on the Result Queue or received by main is never changed again
\* (the results sent so far only grow, by the task a sending worker holds).
C22_TaskMutatedOnce ==
  /\ [](/\ \A k \in 1..Len(tasks.buf) : tasks.buf[k].Result = 0
        /\ \A w \in WorkerIds :
             /\ wpc[w] \in {"gate", "work"} =>
                  wtask[w] = Task(got[w][Len(got[w])])
             /\ wpc[w] \in {"count", "time", "send"} =>
                  wtask[w] = [ID |-> got[w][Len(got[w])],
                              Result |-> 2 * got[w][Len(got[w])]])
  /\ [][section' = section =>
          /\ \A w \in WorkerIds :
               wtask'[w] # wtask[w] =>
                 \/ wpc[w] = "recv" /\ wtask'[w].Result = 0
                 \/ wpc[w] = "work" /\ wtask'[w].ID = wtask[w].ID
                 \/ wpc[w] = "send" /\ wtask'[w] = NoTask
          /\ \/ Arrived' = Arrived
             \/ \E w \in WorkerIds :
                  wpc[w] = "send" /\ Arrived' = Append(Arrived, wtask[w])]_vars

C22_Witness ==
  /\ section = "dynamic" /\ PoolComplete
  /\ Len(collected) = dynamicTaskCount
  /\ \A k \in 1..Len(collected) : collected[k].Result = 2 * collected[k].ID
  /\ \A w \in 1..initialWorkers : Len(got[w]) >= 1

\* C23: lineFilter(input, filters) returns the lines of input that contain
\* none of the filter strings, in their order, joined by newlines (the
\* returned string's lines are those lines; it is empty when none is kept);
\* with no filter it returns input unchanged.
C23_LineFilterKeepsUnmatched ==
  lf.pc = "done" =>
    /\ IF KeptLines(lf.input, lf.filters) = <<>>
       THEN lf.out = <<>>
       ELSE LinesOf(lf.out) = KeptLines(lf.input, lf.filters)
    /\ lf.filters = <<>> => lf.out = lf.input

C23_Witness ==
  /\ lf.pc = "done"
  /\ lf.input = <<"a", NL, "b", NL>>
  /\ lf.filters = <<<<"b", NL>>, <<"a">>>>
  /\ lf.out = <<"b", NL>>

\* C24: in the dynamic pool as main runs it (5 tasks, threshold > 5) the
\* Task Queue never holds more than 5 tasks and the backlog the scaler reads
\* is at most 5, so the third worker is never launched, and the 5 tasks are
\* dequeued by the two initial workers only.
C24_ThirdWorkerNeverLaunched ==
  (section = "dynamic" /\ numTasks = mainNumTasks) =>
    /\ Len(tasks.buf) <= highLoadThreshold
    /\ seen <= highLoadThreshold
    /\ Launched \subseteq 1..initialWorkers
    /\ \A w \in WorkerIds \ (1..initialWorkers) : wpc[w] = "off" /\ got[w] = <<>>
    /\ PoolComplete =>
         (/\ Len(got[1]) + Len(got[2]) = dynamicTaskCount
          /\ SeqToSet(got[1]) \cup SeqToSet(got[2]) = 1..dynamicTaskCount)

C24_Witness ==
  /\ section = "dynamic" /\ numTasks = mainNumTasks /\ PoolComplete
  /\ seen >= 1
  /\ Len(got[1]) >= 1 /\ Len(got[2]) >= 1
  /\ Len(got[1]) + Len(got[2]) = dynamicTaskCount

\* C25: the dynamic pool as main runs it terminates in every interleaving:
\* no worker ever stands at a send to a full Result Queue (it holds at most
\* the 5 results, its capacity is 10), and main's sends, close, Wait and
\* close of the Result Queue complete, after which its range loop ends
\* having collected exactly the 5 results.
C25_DynamicPoolTerminates ==
  /\ []((section = "dynamic" /\ numTasks = mainNumTasks) =>
          /\ Len(results.buf) + Cardinality({w \in WorkerIds : wpc[w] = "send"})
               <= dynamicTaskCount
          /\ \A w \in WorkerIds : wpc[w] = "send" => Len(results.buf) < results.cap
          /\ panic = "none")
  /\ ((section = "dynamic" /\ numTasks = mainNumTasks) ~>
        (/\ section = "dynamic" /\ PoolComplete
         /\ tasks.closed /\ results.closed
         /\ AllWorkersExited
         /\ CollectedExactly(dynamicTaskCount)))

C25_Witness ==
  /\ section = "dynamic" /\ numTasks = mainNumTasks /\ PoolComplete
  /\ CollectedExactly(dynamicTaskCount)
  /\ spc = "check"

\* C26: a rate-limited worker handles each task in the order dequeue, tick,
\* compute, count, time, send: it has consumed one tick per dequeued task
\* (all but the task it waits at the gate with), the stats count only
\* admitted tasks, a result is sent only by a worker that went through these
\* steps, and a worker holds at most one dequeued task at a time.
C26_RateWorkerOrder ==
  /\ [](section = "rate" =>
          /\ \A w \in WorkerIds :
               /\ Len(admitted[w]) = Len(got[w]) - (IF wpc[w] = "gate" THEN 1 ELSE 0)
               /\ (w \in Holding) <=> (wpc[w] \in {"gate", "work", "count", "time", "send"})
               /\ (w \in Holding) => wtask[w].ID = got[w][Len(got[w])]
          /\ Cardinality(DequeuedIds) = Len(Arrived) + Cardinality(Holding)
          /\ stats.tasksProcessed - numTasks =
               Cardinality(Admissions)
                 - Cardinality({w \in WorkerIds : wpc[w] \in {"work", "count"}}))
  /\ [][(section = "rate" /\ section' = "rate") =>
          \A w \in WorkerIds :
            /\ wpc'[w] # wpc[w] => <<wpc[w], wpc'[w]>> \in RateWorkerSteps
            /\ stats' # stats => (wpc[w] \in {"count", "time"} \/ wpc'[w] = wpc[w])
            /\ Len(Arrived') > Len(Arrived) => (wpc[w] = "send" \/ wpc'[w] = wpc[w])]_vars

C26_Witness ==
  /\ section = "rate" /\ PoolComplete
  /\ \E w \in WorkerIds : Len(admitted[w]) >= 2
  /\ Len(collected) = numTasks

\* C27: within a pool run, results sent to the Result Queue <= increments
\* of tasksProcessed made in the run <= tasks dequeued by workers <= tasks
\* enqueued; a task is counted before its result is on the Result Queue.
C27_CountsOrdered ==
  section \in {"basic", "rate", "dynamic"} =>
    /\ Len(Arrived) <= CountedInRun
    /\ CountedInRun <= Cardinality(DequeuedIds)
    /\ Cardinality(DequeuedIds) <= Enqueued
    /\ \A k \in 1..Len(Arrived) : Arrived[k].ID \in DequeuedIds
    /\ CountedInRun = Len(Arrived) + Cardinality({w \in WorkerIds : wpc[w] \in {"time", "send"}})

C27_Witness ==
  /\ section = "dynamic"
  /\ Len(Arrived) = 1 /\ CountedInRun = 2
  /\ Cardinality(DequeuedIds) = 3 /\ Enqueued = 4

\* C28: each pool's WaitGroup counter is never negative and equals the
\* number of workers added and not yet exited (Add(1) precedes the start of
\* the goroutine); a worker calls Done exactly once, when it returns, and a
\* Wait returns only with the counter at zero, after which it stays zero.
C28_WaitGroupCountsWorkers ==
  /\ [](/\ wg >= 0
        /\ panic # "negative WaitGroup counter"
        /\ wg = Counted
        /\ WaitReturned => wg = 0)
  /\ [][section' = section =>
          /\ wg' < wg =>
               (wg' = wg - 1 /\ \E w \in WorkerIds :
                                  /\ wpc[w] = "exit" /\ wpc'[w] = "done"
                                  /\ \A v \in WorkerIds \ {w} : wpc'[v] = wpc[v])
          /\ \A w \in WorkerIds : wpc[w] = "done" => wpc'[w] = "done"
          /\ (~WaitReturned /\ WaitReturned') => wg = 0]_vars

C28_Witness ==
  /\ section = "rate" /\ cpc = "wait"
  /\ wg = 1
  /\ \E w1, w2 \in Launched : wpc[w1] = "done" /\ wpc[w2] = "send"

\* C29: the stats object is shared by the three pools and never reset:
\* tasksProcessed is cumulative, numTasks when the basic pool completes,
\* 2 * numTasks when the rate-limited pool completes and 2 * numTasks + 5
\* when the dynamic pool completes (10, 20 and 25 with main's numTasks = 10).
C29_CountCumulative ==
  /\ [](PoolComplete =>
          stats.tasksProcessed =
            (IF section = "basic" THEN numTasks
             ELSE IF section = "rate" THEN 2 * numTasks
             ELSE 2 * numTasks + dynamicTaskCount))
  /\ [][section' # section => stats' = stats]_vars

C29_Witness ==
  /\ section = "dynamic" /\ PoolComplete
  /\ numTasks = dynamicTaskCount
  /\ stats.tasksProcessed = 3 * dynamicTaskCount
  /\ loaded.printed = dynamicTaskCount

\* C30: in the select demo main's two sends on dataCh and its send on
\* quitCh always complete (main is never left at a send that nobody will
\* receive), and the worker receives 1 and 2 and then returns through the
\* quit branch, never through the time.After branch.
C30_SelectDemoCompletes ==
  /\ ~MainBlockedForever
  /\ sel.wpc = "done" => (sel.exit = "quit" /\ sel.data = <<1, 2>>)

====
